---- MODULE Spec2Model ----
(***************************************************************************)
(* Model of main.py: the websocket chat service of mi-tec-chat.            *)
(*                                                                         *)
(* One asyncio task runs websocket_endpoint for every connection.  Tasks   *)
(* are cooperative: a task runs without interruption from one await to the *)
(* next, so every action below is the code between two awaits.  The awaits *)
(* are websocket.accept(), websocket.receive_text() and conn.send_text().  *)
(* The sqlite calls are synchronous and never interleave with other tasks. *)
(*                                                                         *)
(* A connection (a WebSocket object) is a handle 1..MaxConns; the handler  *)
(* of handle w runs with client_id[w].                                     *)
(***************************************************************************)
EXTENDS Naturals, Sequences, FiniteSets, TLC

(***************************************************************************)
(* Bounds of the model.                                                    *)
(***************************************************************************)
MaxConns == 3       \* connections accepted during a run of PresenceSpec
ChatConns == 2      \* connections accepted during a run of Spec
MaxEvents == 2      \* text frames received during a run of Spec
GroupEvents == 1    \* text frames received during a run of GroupSpec
MaxGroupOps == 2    \* HTTP group requests during a run of GroupSpec
SettledConns == 3   \* connections established when a run of SettledSpec starts
SettledEvents == 1  \* text frames received during a run of SettledSpec
MaxMembers == 1     \* length of the member list of a POST /crear-grupo
RouteFrames == 1    \* text frames received during a run of RouteSpec
RouteGroupOps == 1  \* POST /crear-grupo requests during a run of RouteSpec

Handles == 1..MaxConns
Ids == {"A", "B", "C"}
IdOrder == <<"A", "B", "C">>
GroupNames == {"G"}
ChatGeneral == "Chat General"
Bodies == {"hi"}
Recipients == Ids \cup GroupNames \cup {ChatGeneral}

VARIABLES
  active_connections, \* ConnectionManager.active_connections (a dict, see below)
  pc,                 \* pc[w]: the await at which the task of handle w is suspended
  client_id,          \* client_id[w]: the path parameter of connection w
  transport,          \* transport[w]: "open", or which side closed the connection of w
  sending,            \* sending[w]: the fan-out in which the task of w is suspended
  exc,                \* exc[w]: the exception that left websocket_endpoint, if any
  inbox,              \* inbox[w]: the envelopes delivered to the client of w, in order
  mensajes,           \* table mensajes of chat.db
  next_id,            \* the next AUTOINCREMENT id of table mensajes
  grupos,             \* table grupos of chat.db
  clock,              \* the instant the next datetime.utcnow() returns
  last_call,          \* history: the last ConnectionManager call on each identity
  fanned,             \* history: the last fan-out each task began
  handled,            \* history: the last text frame each task received
  persisted,          \* history: the INSERTs into mensajes, and the task of each
  budget              \* connections, text frames and HTTP requests a run may still take

vars == <<active_connections, pc, client_id, transport, sending, exc, inbox,
          mensajes, next_id, grupos, clock, last_call, fanned, handled,
          persisted, budget>>

\* a send_text to connection w can succeed
Open(w) == transport[w] = "open"

-----------------------------------------------------------------------------
(***************************************************************************)
(* The Python dict.  CPython keeps the entries of a dict in insertion      *)
(* order in an array; `del` leaves a dead slot behind and a new key is     *)
(* appended at the end.  A dict is modelled by that array: a sequence of   *)
(* [key, value] with value 0 for a dead slot.  (The array is compacted     *)
(* only by the sixth insertion; MaxConns stays below that.)                *)
(***************************************************************************)
DeadSlot == [key |-> "", value |-> 0]

Live(d) == {i \in DOMAIN d : d[i].value # 0}

\* `k in d`, d.keys()
Keys(d) == {d[i].key : i \in Live(d)}

\* d.values() as a set
Values(d) == {d[i].value : i \in Live(d)}

\* len(d)
Used(d) == Cardinality(Live(d))

SlotOf(d, k) == CHOOSE i \in Live(d) : d[i].key = k

\* d[k], for k in d
Lookup(d, k) == d[SlotOf(d, k)].value

\* d[k] = v: an existing key keeps its slot, a new key takes a new last slot
DictSet(d, k, v) ==
  IF k \in Keys(d)
    THEN [d EXCEPT ![SlotOf(d, k)] = [key |-> k, value |-> v]]
    ELSE Append(d, [key |-> k, value |-> v])

\* if k in d: del d[k]
DictDel(d, k) ==
  IF k \in Keys(d) THEN [d EXCEPT ![SlotOf(d, k)] = DeadSlot] ELSE d

RECURSIVE KeyList(_)
\* list(d.keys())
KeyList(d) ==
  IF d = <<>> THEN <<>>
  ELSE IF Head(d).value # 0 THEN <<Head(d).key>> \o KeyList(Tail(d))
  ELSE KeyList(Tail(d))

NoIter == [di_used |-> 0, di_pos |-> 0, len |-> 0]

\* iter(d.values()): the iterator remembers len(d) and starts at the first slot
DictIter(d) == [di_used |-> Used(d), di_pos |-> 1, len |-> Used(d)]

RECURSIVE SkipDead(_, _)
\* the first live slot at or after i, Len(d) + 1 if there is none
SkipDead(d, i) ==
  IF i > Len(d) THEN i
  ELSE IF d[i].value # 0 THEN i
  ELSE SkipDead(d, i + 1)

\* next(it) of a dict value iterator (CPython dictiter_iternextvalue):
\* RuntimeError when len(d) differs from the remembered size, StopIteration
\* past the last slot, RuntimeError when a live slot is found after as many
\* values as the dict had were already produced.
DictNext(d, it) ==
  LET i == SkipDead(d, it.di_pos) IN
  IF it.di_used # Used(d)
    THEN [status |-> "error", value |-> 0, iter |-> it]
  ELSE IF i > Len(d)
    THEN [status |-> "stop", value |-> 0, iter |-> it]
  ELSE IF it.len = 0
    THEN [status |-> "error", value |-> 0, iter |-> it]
  ELSE [status |-> "yield", value |-> d[i].value,
        iter |-> [di_used |-> it.di_used, di_pos |-> i + 1, len |-> it.len - 1]]

-----------------------------------------------------------------------------
(***************************************************************************)
(* Envelopes: the JSON objects the server sends, by their fields.  A field *)
(* an envelope does not have is 0, "", FALSE or <<>>.                      *)
(***************************************************************************)
NoMsg ==
  [type |-> "", id |-> 0, sender |-> "", recipient |-> "", message |-> "",
   timestamp |-> 0, is_group |-> FALSE, online_users |-> <<>>]

\* line 167
StatusMsg(online_users) ==
  [NoMsg EXCEPT !.type = "STATUS", !.online_users = online_users]

\* line 279 (no id)
SysMsg(id, now) ==
  [NoMsg EXCEPT !.type = "CHAT", !.sender = "Sistema", !.recipient = "Todos",
                !.message = id \o " se ha unido", !.timestamp = now]

\* line 290
DeleteMsg(msg_id) == [NoMsg EXCEPT !.type = "DELETE", !.id = msg_id]

\* lines 302-305
ChatMsg(nuevo_id, sender, recipient, message, hora_actual, is_group) ==
  [NoMsg EXCEPT !.type = "CHAT", !.id = nuevo_id, !.sender = sender,
                !.recipient = recipient, !.message = message,
                !.timestamp = hora_actual, !.is_group = is_group]

-----------------------------------------------------------------------------
(***************************************************************************)
(* Fan-outs.  A task inside a fan-out is suspended in `await               *)
(* conn.send_text(msg)`: sending[w] holds the envelope, the connection     *)
(* being written to and what the loop keeps: the dict iterator of          *)
(* `for conn in self.active_connections.values()` or the rest of the list  *)
(* of `for member in members_list`.                                        *)
(***************************************************************************)
Idle ==
  [msg |-> NoMsg, target |-> 0, mode |-> "", iter |-> NoIter, members |-> <<>>]

\* one step of `for conn in self.active_connections.values()` (lines 168, 176)
ValuesNext(d, msg, it) ==
  LET r == DictNext(d, it) IN
  [status |-> r.status,
   next |-> IF r.status = "yield"
              THEN [msg |-> msg, target |-> r.value, mode |-> "values",
                    iter |-> r.iter, members |-> <<>>]
              ELSE Idle]

RECURSIVE MembersNext(_, _, _)
\* `for member in members_list: if member in self.active_connections`
\* (lines 180-182), up to the next send_text; send_personal_message
\* (lines 172-173) is the same test on one identity
MembersNext(d, msg, members) ==
  IF members = <<>> THEN [status |-> "stop", next |-> Idle]
  ELSE IF Head(members) \in Keys(d)
    THEN [status |-> "yield",
          next |-> [msg |-> msg, target |-> Lookup(d, Head(members)),
                    mode |-> "members", iter |-> NoIter,
                    members |-> Tail(members)]]
  ELSE MembersNext(d, msg, Tail(members))

\* the loop of a fan-out goes on after a send_text returned
Resume(d, s) ==
  IF s.mode = "values" THEN ValuesNext(d, s.msg, s.iter)
  ELSE MembersNext(d, s.msg, s.members)

\* ConnectionManager.broadcast (lines 175-177) up to its first send_text
broadcast(d, message_json) == ValuesNext(d, message_json, DictIter(d)).next

\* ConnectionManager.broadcast_online_list (lines 165-169) up to its first
\* send_text
broadcast_online_list(d) == broadcast(d, StatusMsg(KeyList(d)))

\* ConnectionManager.broadcast_to_group (lines 179-182) up to its first
\* send_text
broadcast_to_group(d, message_json, members_list) ==
  MembersNext(d, message_json, members_list).next

\* the two calls of send_personal_message of lines 314-315 up to the first
\* send_text
send_personal_messages(d, message_json, recipient, sender) ==
  MembersNext(d, message_json, <<recipient, sender>>).next

\* history: the connections that members_list names in dict d
MemberTargets(d, members_list) ==
  {Lookup(d, m) :
     m \in {members_list[i] : i \in DOMAIN members_list} \cap Keys(d)}

-----------------------------------------------------------------------------
(***************************************************************************)
(* What a step of a task leaves behind: where the task is suspended next,  *)
(* the registry, and the history of calls and fan-outs.                    *)
(***************************************************************************)
TryPcs == {"joined", "delete", "broadcast", "group", "personal", "receive"}
SendPcs == {"connect", "joined", "delete", "broadcast", "group", "personal",
            "disconnect"}
SendErrors == {"WebSocketDisconnect", "TransportError"}

Outcome(p, s, e, d, lc, f) ==
  [pc |-> p, sending |-> s, exc |-> e, active |-> d, last_call |-> lc, fan |-> f]

\* the fan-out left behind as a task of its own: the handler goes on at once
Begin_detached(w, p, msg, s, targets, after) ==
  Outcome(after, s, exc[w], active_connections, last_call,
          [msg |-> msg, targets |-> targets])

\* a fan-out s begins at pc p; with nobody to write to the task goes on to
\* `after` at once
Begin(w, p, msg, s, targets, after) ==
  Outcome(IF s.target = 0 THEN after ELSE p, s, exc[w], active_connections,
          last_call, [msg |-> msg, targets |-> targets])

\* an exception leaves websocket_endpoint: the entry of the task stays
Raise(w, e) ==
  Outcome("crashed", Idle, e, active_connections, last_call, fanned[w])

\* disconnect without its `del`: the entry stays
disconnect_keeps(d, id) == d

\* ConnectionManager.disconnect (lines 161-163)
disconnect(d, id) == DictDel(d, id)

\* except WebSocketDisconnect (lines 317-319)
Except(w) ==
  LET d == disconnect(active_connections, client_id[w])
      s == broadcast_online_list(d)
  IN Outcome(IF s.target = 0 THEN "done" ELSE "disconnect", s,
             "WebSocketDisconnect", d,
             [last_call EXCEPT ![client_id[w]] =
                IF client_id[w] \in Keys(active_connections)
                  THEN "disconnect" ELSE "disconnect_absent"],
             [msg |-> StatusMsg(KeyList(d)), targets |-> Values(d)])

\* an exception e is raised at pc[w]
Throw(w, e) ==
  IF e = "WebSocketDisconnect" /\ pc[w] \in TryPcs THEN Except(w) ELSE Raise(w, e)

\* the statement after the fan-out of pc[w]; now is the value of utcnow()
\* (successive calls of utcnow() return successive instants)
AfterLoop(w, now) ==
  IF pc[w] = "connect"
    THEN LET sys_msg == SysMsg(client_id[w], now)            \* lines 277-280
         IN Begin(w, "joined", sys_msg, broadcast(active_connections, sys_msg),
                  Values(active_connections), "receive")
  ELSE IF pc[w] = "disconnect"
    THEN Outcome("done", Idle, exc[w], active_connections, last_call, fanned[w])
  ELSE Outcome("receive", Idle, exc[w], active_connections, last_call, fanned[w])

\* the step of task w ends as r says
Becomes(w, r) ==
  /\ pc' = [pc EXCEPT ![w] = r.pc]
  /\ sending' = [sending EXCEPT ![w] = r.sending]
  /\ exc' = [exc EXCEPT ![w] = r.exc]
  /\ transport' = [transport EXCEPT ![w] =
                     \* the server closes the connection of a handler that ended
                     IF r.pc \in {"done", "crashed"} /\ @ = "open"
                       THEN "server_closed" ELSE @]
  /\ active_connections' = r.active
  /\ last_call' = r.last_call
  /\ fanned' = [fanned EXCEPT ![w] = r.fan]

-----------------------------------------------------------------------------
(***************************************************************************)
(* Text frames of the clients: a JSON object is a record of the keys it    *)
(* has; NotJson is a frame json.loads rejects.                             *)
(***************************************************************************)
NotJson == [garbage |-> TRUE]

\* history: no frame received yet
NoEvent == [none |-> TRUE]

MessageEvents ==
  {[recipient |-> r, message |-> b] : r \in Ids \cup {ChatGeneral}, b \in Bodies}
  \cup {[recipient |-> r, message |-> b, is_group |-> TRUE] :
          r \in GroupNames \cup {ChatGeneral}, b \in Bodies}

DeleteEvents == {[action |-> "delete", id |-> i] : i \in 1..MaxEvents}

MalformedEvents ==
  {NotJson, [action |-> "delete"]}
  \cup {[message |-> b] : b \in Bodies}
  \cup {[recipient |-> r] : r \in Ids}

Events == MessageEvents \cup DeleteEvents \cup MalformedEvents

\* data_json.get(key, default)
Get(data_json, key, default) ==
  IF key \in DOMAIN data_json THEN data_json[key] ELSE default

-----------------------------------------------------------------------------
(***************************************************************************)
(* The tables of chat.db.                                                  *)
(***************************************************************************)
\* guardar_mensaje_db without its INSERT
guardar_sin_insert(sender, recipient, message, timestamp, is_group) == mensajes

\* guardar_mensaje_db (lines 37-45): the table after the INSERT
guardar_mensaje_db(sender, recipient, message, timestamp, is_group) ==
  mensajes \cup {[id |-> next_id, sender |-> sender, recipient |-> recipient,
                  message |-> message, timestamp |-> timestamp,
                  is_group |-> IF is_group THEN 1 ELSE 0]}

\* the DELETE without `AND sender = ?`
borrados_any_sender(msg_id, sender) == {m \in mensajes : m.id = msg_id}

\* borrar_mensaje_db (lines 47-54): the rows the DELETE removes
borrados(msg_id, sender) ==
  {m \in mensajes : m.id = msg_id /\ m.sender = sender}

\* obtener_mensajes_db (lines 56-62), the answer of GET /historial
obtener_mensajes_db ==
  {[id |-> m.id, sender |-> m.sender, recipient |-> m.recipient,
    message |-> m.message, timestamp |-> m.timestamp,
    is_group |-> (m.is_group # 0)] : m \in mensajes}

\* obtener_info_grupo_db (lines 100-108): a record, or NoGroup for None
NoGroup == [none |-> TRUE]
obtener_info_grupo_db(nombre_grupo) ==
  IF nombre_grupo \in DOMAIN grupos
    THEN [nombre |-> nombre_grupo, creador |-> grupos[nombre_grupo].creador,
          miembros |-> grupos[nombre_grupo].miembros]
    ELSE NoGroup

-----------------------------------------------------------------------------
(***************************************************************************)
(* The initial state: the process has started, init_db() has run on an     *)
(* empty chat.db and the ConnectionManager is constructed (line 184).      *)
(***************************************************************************)
Init ==
  /\ active_connections = <<>>
  /\ pc = [w \in Handles |-> "new"]
  /\ client_id = [w \in Handles |-> ""]
  /\ transport = [w \in Handles |-> ""]
  /\ sending = [w \in Handles |-> Idle]
  /\ exc = [w \in Handles |-> ""]
  /\ inbox = [w \in Handles |-> <<>>]
  /\ mensajes = {}
  /\ next_id = 1
  /\ grupos = [n \in {} |-> NoGroup]
  /\ clock = 0
  /\ last_call = [i \in Ids |-> ""]
  /\ fanned = [w \in Handles |-> [msg |-> NoMsg, targets |-> {}]]
  /\ handled = [w \in Handles |-> NoEvent]
  /\ persisted = <<>>
  /\ budget = [conns |-> ChatConns, events |-> MaxEvents, group_ops |-> 0]

\* Identities are interchangeable, so the connections take them in the order
\* of IdOrder: an identity already in use, or the first one never used.
UsedIds == {client_id[w] : w \in {v \in Handles : pc[v] # "new"}}
FreshIds ==
  {IdOrder[i] : i \in {j \in DOMAIN IdOrder :
                         /\ IdOrder[j] \notin UsedIds
                         /\ \A k \in 1..(j - 1) : IdOrder[k] \in UsedIds}}

-----------------------------------------------------------------------------
(***************************************************************************)
(* The task of a connection: websocket_endpoint (lines 272-319).           *)
(***************************************************************************)
\* ConnectionManager.connect (lines 156-159) from the return of accept() to
\* the first send_text of broadcast_online_list
connect(w, id) ==
  LET d == DictSet(active_connections, id, w)
      s == broadcast_online_list(d)
  IN Outcome("connect", s, "", d,
             [last_call EXCEPT ![id] =
                IF id \in Keys(active_connections) THEN "reconnect" ELSE "connect"],
             [msg |-> s.msg, targets |-> Values(d)])

\* line 274: a client opens /ws/{client_id} and accept() returns
Accept(w, id) ==
  /\ pc[w] = "new"
  /\ \A v \in Handles : v < w => pc[v] # "new"
  /\ budget.conns > 0
  /\ budget' = [budget EXCEPT !.conns = @ - 1]
  /\ id \in UsedIds \cup FreshIds
  /\ client_id' = [client_id EXCEPT ![w] = id]
  /\ LET r == connect(w, id) IN
       /\ pc' = [pc EXCEPT ![w] = r.pc]
       /\ sending' = [sending EXCEPT ![w] = r.sending]
       /\ active_connections' = r.active
       /\ last_call' = r.last_call
       /\ fanned' = [fanned EXCEPT ![w] = r.fan]
  /\ transport' = [transport EXCEPT ![w] = "open"]
  /\ UNCHANGED <<exc, inbox, mensajes, next_id, grupos, clock, handled,
                 persisted>>

\* the send_text in which task w is suspended returns or raises, and the task
\* runs to its next await
Send(w) ==
  LET s == sending[w] IN
  /\ UNCHANGED <<client_id, mensajes, next_id, grupos, handled, persisted,
                 budget>>
  /\ IF ~Open(s.target)
       THEN \* the transport of the target is closed: send_text raises
            /\ \E e \in SendErrors : Becomes(w, Throw(w, e))
            /\ UNCHANGED <<inbox, clock>>
       ELSE /\ inbox' = [inbox EXCEPT ![s.target] = Append(@, s.msg)]
            /\ LET r == Resume(active_connections, s) IN
                 IF r.status = "yield"
                   THEN /\ sending' = [sending EXCEPT ![w] = r.next]
                        /\ UNCHANGED <<pc, exc, transport, active_connections,
                                       last_call, fanned, clock>>
                 ELSE IF r.status = "error"
                   THEN \* dictionary changed size during iteration
                        /\ Becomes(w, Throw(w, "RuntimeError"))
                        /\ UNCHANGED clock
                 ELSE /\ Becomes(w, AfterLoop(w, clock))
                      /\ clock' = IF pc[w] = "connect" THEN clock + 1 ELSE clock

\* line 159 (169): the presence list after the connect
ConnectSend(w) == pc[w] = "connect" /\ Send(w)

\* line 280 (177): the notice that client_id has joined
JoinedSend(w) == pc[w] = "joined" /\ Send(w)

\* lines 290, 308, 312, 314-315: the envelope of a client event
DispatchSend(w) ==
  pc[w] \in {"delete", "broadcast", "group", "personal"} /\ Send(w)

\* line 319 (169): the presence list after the disconnect
DisconnectSend(w) == pc[w] = "disconnect" /\ Send(w)

\* the task goes back to `await websocket.receive_text()` (line 283)
Loop(w) ==
  Outcome("receive", Idle, exc[w], active_connections, last_call, fanned[w])

\* lines 307-315 with the test of is_group before the test of the sentinel
Route_group_first(w, resp, recipient, is_group) ==
  IF is_group
    THEN LET info_grupo == obtener_info_grupo_db(recipient) IN
         IF info_grupo # NoGroup
           THEN Begin(w, "group", resp,
                      broadcast_to_group(active_connections, resp,
                                         info_grupo.miembros),
                      MemberTargets(active_connections, info_grupo.miembros),
                      "receive")
           ELSE Begin(w, "group", resp, Idle, {}, "receive")
  ELSE IF recipient = ChatGeneral
    THEN Begin(w, "broadcast", resp, broadcast(active_connections, resp),
               Values(active_connections), "receive")
  ELSE Begin(w, "personal", resp,
             send_personal_messages(active_connections, resp, recipient,
                                    client_id[w]),
             MemberTargets(active_connections, <<recipient, client_id[w]>>),
             "receive")

\* lines 307-315: the target of a message event and its first send_text
Route(w, resp, recipient, is_group) ==
  IF recipient = ChatGeneral
    THEN Begin(w, "broadcast", resp, broadcast(active_connections, resp),
               Values(active_connections), "receive")
  ELSE IF is_group
    THEN LET info_grupo == obtener_info_grupo_db(recipient) IN
         IF info_grupo # NoGroup
           THEN Begin(w, "group", resp,
                      broadcast_to_group(active_connections, resp,
                                         info_grupo.miembros),
                      MemberTargets(active_connections, info_grupo.miembros),
                      "receive")
           ELSE Begin(w, "group", resp, Idle, {}, "receive")  \* no such group
  ELSE Begin(w, "personal", resp,
             send_personal_messages(active_connections, resp, recipient,
                                    client_id[w]),
             MemberTargets(active_connections, <<recipient, client_id[w]>>),
             "receive")

\* lines 287-290: a delete event
HandleDelete(w, data_json) ==
  IF "id" \notin DOMAIN data_json
    THEN /\ Becomes(w, Throw(w, "KeyError"))
         /\ UNCHANGED <<mensajes, next_id, clock, persisted>>
    ELSE LET msg_id == data_json.id
             gone == borrados(msg_id, client_id[w])
             env == DeleteMsg(msg_id)
         IN /\ mensajes' = mensajes \ gone
            /\ UNCHANGED <<next_id, clock, persisted>>
            /\ IF gone # {}
                 THEN Becomes(w, Begin(w, "delete", env,
                                       broadcast(active_connections, env),
                                       Values(active_connections), "receive"))
                 ELSE Becomes(w, Loop(w))

\* lines 292-315: a message event; sqlite may fail the INSERT
HandleMessage(w, data_json) ==
  IF "recipient" \notin DOMAIN data_json \/ "message" \notin DOMAIN data_json
    THEN /\ Becomes(w, Throw(w, "KeyError"))
         /\ UNCHANGED <<mensajes, next_id, clock, persisted>>
    ELSE LET recipient == data_json.recipient
             message == data_json.message
             is_group == Get(data_json, "is_group", FALSE)
             hora_actual == clock
         IN \E stored \in BOOLEAN :
              /\ clock' = clock + 1
              /\ IF stored
                   THEN LET nuevo_id == next_id
                            tabla == guardar_mensaje_db(client_id[w], recipient,
                                         message, hora_actual, is_group)
                            resp == ChatMsg(nuevo_id, client_id[w], recipient,
                                            message, hora_actual, is_group)
                        IN /\ mensajes' = tabla
                           /\ persisted' = Append(persisted,
                                              [by |-> w, rows |-> tabla \ mensajes])
                           /\ next_id' = next_id + 1
                           /\ Becomes(w, Route(w, resp, recipient, is_group))
                   ELSE /\ Becomes(w, Throw(w, "OperationalError"))
                        /\ UNCHANGED <<mensajes, next_id, persisted>>

\* lines 283-315: receive_text returns the next frame of the client, ev, and
\* the task handles it up to its next await.  The client sent ev while the
\* connection was open; the frames a client sent before it closed are
\* received before the disconnect.
Receive(w, raw_data) ==
  /\ pc[w] = "receive"
  /\ budget.events > 0
  /\ budget' = [budget EXCEPT !.events = @ - 1]
  /\ handled' = [handled EXCEPT ![w] = raw_data]
  /\ UNCHANGED <<client_id, inbox, grupos>>
  /\ IF raw_data = NotJson
       THEN /\ Becomes(w, Throw(w, "JSONDecodeError"))       \* line 284
            /\ UNCHANGED <<mensajes, next_id, clock, persisted>>
     ELSE IF Get(raw_data, "action", "message") = "delete"   \* line 285
       THEN HandleDelete(w, raw_data)
     ELSE HandleMessage(w, raw_data)

\* line 283 raises WebSocketDisconnect: the client has closed the connection
ReceiveDisconnect(w) ==
  /\ pc[w] = "receive"
  /\ transport[w] = "client_closed"
  /\ Becomes(w, Throw(w, "WebSocketDisconnect"))
  /\ UNCHANGED <<client_id, inbox, mensajes, next_id, grupos, clock, handled,
                 persisted, budget>>

-----------------------------------------------------------------------------
(***************************************************************************)
(* The clients.                                                            *)
(***************************************************************************)
\* the client of w closes the connection, or the transport fails
ClientClose(w) ==
  /\ Open(w)
  /\ transport' = [transport EXCEPT ![w] = "client_closed"]
  /\ UNCHANGED <<active_connections, pc, client_id, sending, exc, inbox,
                 mensajes, next_id, grupos, clock, last_call, fanned, handled,
                 persisted, budget>>

-----------------------------------------------------------------------------
(***************************************************************************)
(* The HTTP requests on groups.  Their handlers have no await, so each is  *)
(* one step.                                                               *)
(***************************************************************************)
SeqsUpTo(S, n) == UNION {[1..k -> S] : k \in 0..n}

Range(f) == {f[i] : i \in DOMAIN f}

\* list(set(miembros)): the members once each, in the order of the set
ListsOfSet(S) ==
  {f \in [1..Cardinality(S) -> S] : \A i, j \in DOMAIN f : f[i] = f[j] => i = j}

\* list.remove(x): the list without its first x
Remove(list, x) ==
  LET i == CHOOSE k \in DOMAIN list :
             list[k] = x /\ \A j \in 1..(k - 1) : list[j] # x
  IN SubSeq(list, 1, i - 1) \o SubSeq(list, i + 1, Len(list))

\* modificar_miembros_grupo_db (lines 110-116)
modificar_miembros_grupo_db(nombre_grupo, nueva_lista) ==
  [grupos EXCEPT ![nombre_grupo].miembros = nueva_lista]

\* crear_grupo_db (lines 87-98): the table after the INSERT, which fails on
\* an existing nombre
crear_grupo_db(nombre, creador, miembros_lista) ==
  IF nombre \in DOMAIN grupos THEN grupos
  ELSE [n \in DOMAIN grupos \cup {nombre} |->
          IF n = nombre THEN [creador |-> creador, miembros |-> miembros_lista]
          ELSE grupos[n]]

GroupRequest ==
  /\ budget.group_ops > 0
  /\ budget' = [budget EXCEPT !.group_ops = @ - 1]
  /\ UNCHANGED <<active_connections, pc, client_id, transport, sending, exc,
                 inbox, mensajes, next_id, clock, last_call, fanned, handled,
                 persisted>>

\* POST /crear-grupo (lines 227-234)
create_group(nombre, creador, miembros) ==
  /\ GroupRequest
  /\ \E listed \in ListsOfSet(Range(miembros)) :
       LET members == IF creador \notin Range(listed)
                        THEN Append(listed, creador) ELSE listed
       IN grupos' = crear_grupo_db(nombre, creador, members)

\* POST /grupo/agregar (lines 244-252)
add_member(nombre_grupo, solicitante, target_user) ==
  /\ GroupRequest
  /\ LET info == obtener_info_grupo_db(nombre_grupo) IN
       IF info = NoGroup THEN UNCHANGED grupos                        \* 404
       ELSE IF solicitante \notin Range(info.miembros)
         THEN UNCHANGED grupos                                        \* 403
       ELSE IF target_user \notin Range(info.miembros)
         THEN grupos' = modificar_miembros_grupo_db(nombre_grupo,
                           Append(info.miembros, target_user))
       ELSE UNCHANGED grupos

\* POST /grupo/expulsar without the test of line 258
kick_member_by_anyone(nombre_grupo, solicitante, target_user) ==
  /\ GroupRequest
  /\ LET info == obtener_info_grupo_db(nombre_grupo) IN
       IF info = NoGroup THEN UNCHANGED grupos
       ELSE IF target_user \in Range(info.miembros)
         THEN grupos' = modificar_miembros_grupo_db(nombre_grupo,
                           Remove(info.miembros, target_user))
       ELSE UNCHANGED grupos

\* POST /grupo/expulsar (lines 254-262)
kick_member(nombre_grupo, solicitante, target_user) ==
  /\ GroupRequest
  /\ LET info == obtener_info_grupo_db(nombre_grupo) IN
       IF info = NoGroup THEN UNCHANGED grupos                        \* 404
       ELSE IF info.creador # solicitante THEN UNCHANGED grupos       \* 403
       ELSE IF target_user \in Range(info.miembros)
         THEN grupos' = modificar_miembros_grupo_db(nombre_grupo,
                           Remove(info.miembros, target_user))
       ELSE UNCHANGED grupos

-----------------------------------------------------------------------------
(***************************************************************************)
(* Specifications.                                                         *)
(*   Spec          the websocket service: connections and their events     *)
(*   PresenceSpec  connections that come and go, more of them, no events   *)
(*   SettledSpec   events and closes of connections that are established   *)
(*   GroupSpec     the same connections, the group requests and the        *)
(*                 messages sent to groups                                 *)
(*   RouteSpec     the same connections staying open, messages of every    *)
(*                 kind and the creation of groups                         *)
(***************************************************************************)
Next ==
  \/ \E w \in Handles, id \in Ids : Accept(w, id)
  \/ \E w \in Handles : ConnectSend(w)
  \/ \E w \in Handles : JoinedSend(w)
  \/ \E w \in Handles : DispatchSend(w)
  \/ \E w \in Handles : DisconnectSend(w)
  \/ \E w \in Handles, ev \in Events : Receive(w, ev)
  \/ \E w \in Handles : ReceiveDisconnect(w)
  \/ \E w \in Handles : ClientClose(w)

Spec == Init /\ [][Next]_vars

PresenceInit ==
  Init!1 /\ Init!2 /\ Init!3 /\ Init!4 /\ Init!5 /\ Init!6 /\ Init!7 /\ Init!8
  /\ Init!9 /\ Init!10 /\ Init!11 /\ Init!12 /\ Init!13 /\ Init!14 /\ Init!15
  /\ budget = [conns |-> MaxConns, events |-> 0, group_ops |-> 0]

PresenceNext ==
  \/ \E w \in Handles, id \in Ids : Accept(w, id)
  \/ \E w \in Handles : ConnectSend(w)
  \/ \E w \in Handles : JoinedSend(w)
  \/ \E w \in Handles : DisconnectSend(w)
  \/ \E w \in Handles : ReceiveDisconnect(w)
  \/ \E w \in Handles : ClientClose(w)

PresenceSpec == PresenceInit /\ [][PresenceNext]_vars


RECURSIVE Settled(_)
\* The state in which n clients have connected one after the other, each
\* handler running undisturbed up to its receive_text (line 283).
Settled(n) ==
  IF n = 0
    THEN [active |-> <<>>, inbox |-> [w \in Handles |-> <<>>],
          client_id |-> [w \in Handles |-> ""],
          last_call |-> [i \in Ids |-> ""],
          fanned |-> [w \in Handles |-> [msg |-> NoMsg, targets |-> {}]]]
    ELSE LET prev == Settled(n - 1)
             id == IdOrder[((n - 1) % Len(IdOrder)) + 1]
             d == DictSet(prev.active, id, n)
             status == StatusMsg(KeyList(d))
             sys_msg == SysMsg(id, n - 1)
         IN [active |-> d,
             inbox |-> [w \in Handles |->
                          IF w \in Values(d) THEN prev.inbox[w] \o <<status, sys_msg>>
                          ELSE prev.inbox[w]],
             client_id |-> [prev.client_id EXCEPT ![n] = id],
             last_call |-> [prev.last_call EXCEPT ![id] =
                              IF id \in Keys(prev.active) THEN "reconnect"
                              ELSE "connect"],
             fanned |-> [prev.fanned EXCEPT ![n] =
                           [msg |-> sys_msg, targets |-> Values(d)]]]

\* Settled(SettledConns) is reached, whatever the budget left
SettledReached ==
  LET st == Settled(SettledConns) IN
  /\ active_connections = st.active
  /\ pc = [w \in Handles |-> IF w <= SettledConns THEN "receive" ELSE "new"]
  /\ client_id = st.client_id
  /\ transport = [w \in Handles |-> IF w <= SettledConns THEN "open" ELSE ""]
  /\ sending = [w \in Handles |-> Idle]
  /\ exc = [w \in Handles |-> ""]
  /\ inbox = st.inbox
  /\ mensajes = {}
  /\ next_id = 1
  /\ grupos = [n \in {} |-> NoGroup]
  /\ clock = SettledConns
  /\ last_call = st.last_call
  /\ fanned = st.fanned
  /\ handled = [w \in Handles |-> NoEvent]
  /\ persisted = <<>>

SettledInit ==
  /\ SettledReached
  /\ budget = [conns |-> 0, events |-> SettledEvents, group_ops |-> 0]

SettledNext ==
  \/ \E w \in Handles : DispatchSend(w)
  \/ \E w \in Handles : DisconnectSend(w)
  \/ \E w \in Handles, ev \in Events : Receive(w, ev)
  \/ \E w \in Handles : ReceiveDisconnect(w)
  \/ \E w \in Handles : ClientClose(w)

SettledSpec == SettledInit /\ [][SettledNext]_vars

GroupMessages ==
  {[recipient |-> r, message |-> b, is_group |-> TRUE] :
     r \in GroupNames, b \in Bodies}

GroupInit ==
  /\ SettledReached
  /\ budget = [conns |-> 0, events |-> GroupEvents, group_ops |-> MaxGroupOps]

GroupNext ==
  \/ \E w \in Handles : DispatchSend(w)
  \/ \E w \in Handles : DisconnectSend(w)
  \/ \E w \in Handles, ev \in GroupMessages \cup DeleteEvents : Receive(w, ev)
  \/ \E w \in Handles : ReceiveDisconnect(w)
  \/ \E w \in Handles : ClientClose(w)
  \/ \E n \in GroupNames, c \in Ids, m \in SeqsUpTo(Ids, MaxMembers) :
       create_group(n, c, m)
  \/ \E n \in GroupNames, a, b \in Ids : add_member(n, a, b)
  \/ \E n \in GroupNames, a, b \in Ids : kick_member(n, a, b)

GroupSpec == GroupInit /\ [][GroupNext]_vars

\* RouteSpec: established connections that stay open, message frames with
\* every combination of recipient and is_group, and groups being created,
\* one of them named like the sentinel.
RouteGroupNames == GroupNames \cup {ChatGeneral}

RouteMessages ==
  {[recipient |-> r, message |-> b] :
     r \in Ids \cup RouteGroupNames, b \in Bodies}
  \cup {[recipient |-> r, message |-> b, is_group |-> g] :
          r \in Ids \cup RouteGroupNames, b \in Bodies, g \in BOOLEAN}

RouteInit ==
  /\ SettledReached
  /\ budget = [conns |-> 0, events |-> RouteFrames, group_ops |-> RouteGroupOps]

RouteNext ==
  \/ \E w \in Handles : DispatchSend(w)
  \/ \E w \in Handles, ev \in RouteMessages : Receive(w, ev)
  \/ \E n \in RouteGroupNames, c \in Ids, m \in SeqsUpTo(Ids, MaxMembers) :
       create_group(n, c, m)

RouteSpec == RouteInit /\ [][RouteNext]_vars

-----------------------------------------------------------------------------
(***************************************************************************)
(* Properties.                                                             *)
(***************************************************************************)
\* the number of copies of envelope m in the sequence inbox_w
Count(inbox_w, m) == Cardinality({k \in DOMAIN inbox_w : inbox_w[k] = m})

\* active_connections maps the identity of w to w
Registered(w) ==
  /\ client_id[w] \in Keys(active_connections)
  /\ Lookup(active_connections, client_id[w]) = w

\* the handler of w has ended
Ended(w) == pc[w] \in {"done", "crashed"}

\* the last fan-out task w began is over: completed, or left by an exception
FanoutOver(w) == sending[w].msg # fanned[w].msg

\* C1: after any sequence of connect and disconnect calls the keys of
\* active_connections are exactly the identities whose most recent call was
\* connect (a first connect or a repeated one).
C1_KeysFollowLastCall ==
  Keys(active_connections) =
    {i \in Ids : last_call[i] \in {"connect", "reconnect"}}

\* C1 witness: an identity was connected twice and disconnected twice (the
\* second disconnect found it absent) while another identity is connected.
C1_Witness ==
  \E i, j \in Ids :
    /\ last_call[i] = "disconnect_absent"
    /\ last_call[j] = "connect"
    /\ i \notin Keys(active_connections)
    /\ j \in Keys(active_connections)

\* C2: an identity is a key of active_connections iff a connection of that
\* identity is open and accepted: a handler that has ended has left no entry
\* for its connection, and an accepted connection whose transport is open has
\* its identity in the registry.
C2_EntryIffConnectionOpen ==
  \A w \in Handles :
    /\ Ended(w) => ~Registered(w)
    /\ Open(w) => client_id[w] \in Keys(active_connections)

\* the handler of w is inside websocket_endpoint and has not reached the
\* except clause
Running(w) ==
  pc[w] \in {"connect", "joined", "receive", "delete", "broadcast", "group",
             "personal"}

\* connection v is open and its handler waits for the next frame
Listening(v) == Open(v) /\ pc[v] = "receive"

\* envelope m is the CHAT envelope of a message a client sent
ClientChat(m) == m.type = "CHAT" /\ m.id # 0

\* C3: when a message to "Chat General" has been dispatched, every
\* connection that was registered when the dispatch began and is still open
\* has received the envelope exactly once, and every copy of the message
\* anywhere is that same envelope (same id, same timestamp).
C3_BroadcastReachesEveryConnection ==
  \A w \in Handles :
    LET f == fanned[w] IN
    (ClientChat(f.msg) /\ f.msg.recipient = ChatGeneral /\ FanoutOver(w)) =>
      /\ \A v \in f.targets : Listening(v) => Count(inbox[v], f.msg) = 1
      /\ \A v \in Handles : \A k \in DOMAIN inbox[v] :
           (ClientChat(inbox[v][k]) /\ inbox[v][k].id = f.msg.id)
             => inbox[v][k] = f.msg

\* C4: when a message to a single user who is not in active_connections has
\* been dispatched, the connection of the sender has received the envelope
\* exactly once (unless its client closed it) and no other connection has
\* received it.
C4_OfflineRecipientEchoesToSender ==
  \A w \in Handles :
    LET f == fanned[w] IN
    (/\ ClientChat(f.msg)
     /\ f.msg.recipient # ChatGeneral
     /\ ~f.msg.is_group
     /\ \A v \in f.targets : client_id[v] # f.msg.recipient
     /\ FanoutOver(w)) =>
      /\ transport[w] # "client_closed" => Count(inbox[w], f.msg) = 1
      /\ \A v \in Handles \ {w} : Count(inbox[v], f.msg) = 0

\* the stored sender of message msg_id is identity id
Owns(id, msg_id) == \E m \in mensajes : m.id = msg_id /\ m.sender = id

\* envelope m is held by some client or is being sent
Outbound(m) ==
  \/ \E v \in Handles : \E k \in DOMAIN inbox[v] : inbox[v][k] = m
  \/ \E w \in Handles : sending[w].msg = m

\* C5: a delete event for a message id whose stored sender is not the
\* requester (or that is not stored) starts no fan-out and delivers nothing,
\* leaves table mensajes and the history listing as they were, and leaves
\* the requester's handler waiting for its next frame with its registry
\* entry and its transport untouched.
C5_ForeignDeleteIsANoOp ==
  [][\A w \in Handles : \A ev \in DeleteEvents :
       (Receive(w, ev) /\ ~Owns(client_id[w], ev.id)) =>
         /\ mensajes' = mensajes
         /\ obtener_mensajes_db' = obtener_mensajes_db
         /\ inbox' = inbox
         /\ sending' = sending
         /\ pc'[w] = "receive"
         /\ exc' = exc
         /\ transport' = transport
         /\ active_connections' = active_connections]_vars

\* C5 witness: a handler has received a delete event for a stored message of
\* another sender; the message is still stored, no DELETE envelope for it
\* exists and the handler waits for its next frame.
C5_Witness ==
  \E w \in Handles : \E m \in mensajes :
    /\ handled[w] = [action |-> "delete", id |-> m.id]
    /\ m.sender # client_id[w]
    /\ pc[w] = "receive"
    /\ Open(w)
    /\ ~Outbound(DeleteMsg(m.id))

\* C6: when a delete event of the stored sender has been dispatched, the
\* message is gone from table mensajes and every connection that was
\* registered when the dispatch began (the deleter's too) and whose transport
\* did not fail has received DELETE{id} exactly once; no connection ever
\* holds two DELETE envelopes of one id.
C6_OwnDeleteReachesEveryone ==
  /\ \A w \in Handles :
       LET f == fanned[w] IN
       (f.msg.type = "DELETE" /\ FanoutOver(w)) =>
         /\ \A m \in mensajes : m.id # f.msg.id
         /\ \A v \in f.targets :
              (Open(v) \/ (v = w /\ transport[w] # "client_closed"))
                => Count(inbox[v], f.msg) = 1
  /\ \A v \in Handles : \A i \in 1..MaxEvents :
       Count(inbox[v], DeleteMsg(i)) <= 1

\* C7: when a message to a group has been dispatched, every connection of a
\* member that was registered when the dispatch began and is still open has
\* received the envelope exactly once, and no other connection has received
\* it (none at all when the group does not exist or no member is online).
C7_GroupReachesOnlineMembers ==
  \A w \in Handles :
    LET f == fanned[w] IN
    (/\ ClientChat(f.msg)
     /\ f.msg.is_group
     /\ f.msg.recipient # ChatGeneral
     /\ FanoutOver(w)) =>
      /\ \A v \in f.targets : Listening(v) => Count(inbox[v], f.msg) = 1
      /\ \A v \in Handles \ f.targets : Count(inbox[v], f.msg) = 0

\* C8: when the presence broadcast after a connect or a disconnect is over,
\* every connection that was registered after the change, and still is, open
\* and listening, has received the STATUS envelope that lists the keys of the
\* registry after the change (identities being pairwise distinct).
UniqueIds ==
  \A a, b \in Handles :
    (a # b /\ pc[a] # "new" /\ pc[b] # "new") => client_id[a] # client_id[b]

C8_PresenceReachesEveryConnection ==
  \A w \in Handles :
    LET f == fanned[w] IN
    (UniqueIds /\ f.msg.type = "STATUS" /\ FanoutOver(w)) =>
      \A v \in f.targets :
        (Listening(v) /\ Registered(v))
          => \E k \in DOMAIN inbox[v] : inbox[v][k] = f.msg

\* C9: when a send of a fan-out has failed, every other target of the
\* fan-out that is still open has nevertheless received the envelope.
C9_FailedSendDoesNotAbort ==
  \A w \in Handles :
    (pc[w] = "crashed" /\ exc[w] \in SendErrors) =>
      \A v \in fanned[w].targets :
        Listening(v) => \E k \in DOMAIN inbox[v] : inbox[v][k] = fanned[w].msg

\* C10: the close or the transport failure of a connection ends no handler
\* but its own and removes no registry entry but its own: a handler is left
\* by a transport exception only when its own client closed, and a
\* connection is out of the registry only when its own client closed.
C10_FailureStaysLocal ==
  \A y \in Handles :
    /\ exc[y] \in {"WebSocketDisconnect", "TransportError", "RuntimeError"}
         => transport[y] = "client_closed"
    /\ (pc[y] # "new" /\ ~Registered(y)) => transport[y] = "client_closed"

\* C11: a malformed frame (not JSON, a delete event without "id", a message
\* event without "recipient" or "message") costs only that frame: the
\* handler that received it has not ended, its connection is still open
\* (unless the client closed it) and still registered, and nothing was stored
\* or sent for the frame.
C11_MalformedEventIsSkipped ==
  \A w \in Handles :
    (handled[w] \in MalformedEvents /\ transport[w] # "client_closed") =>
      /\ ~Ended(w)
      /\ Open(w)
      /\ client_id[w] \in Keys(active_connections)

\* C12: no two open accepted connections have the same identity, and every
\* open accepted connection is the one active_connections maps its identity
\* to.
C12_OneOpenConnectionPerIdentity ==
  /\ \A v, w \in Handles :
       (v # w /\ Open(v) /\ Open(w)) => client_id[v] # client_id[w]
  /\ \A w \in Handles : (Open(w) /\ Running(w)) => Registered(w)

\* the CHAT envelope of lines 302-305 for a row of table mensajes
EnvelopeOf(row) ==
  ChatMsg(row.id, row.sender, row.recipient, row.message, row.timestamp,
          row.is_group # 0)

\* C13: a handler reads its next frame only when the fan-out of the previous
\* one is over, and of two messages persisted by the same handler the earlier
\* one has the smaller id and the earlier timestamp, is no longer being sent,
\* and stands before the later one in every inbox that holds both.
C13_SenderOrderIsKept ==
  /\ \A w \in Handles : pc[w] = "receive" => sending[w] = Idle
  /\ \A k1, k2 \in DOMAIN persisted :
       (k1 < k2 /\ persisted[k1].by = persisted[k2].by) =>
         \A r1 \in persisted[k1].rows : \A r2 \in persisted[k2].rows :
           /\ r1.id < r2.id
           /\ r1.timestamp < r2.timestamp
           /\ \A u \in Handles : sending[u].msg # EnvelopeOf(r1)
           /\ \A v \in Handles : \A i, j \in DOMAIN inbox[v] :
                (inbox[v][i] = EnvelopeOf(r1) /\ inbox[v][j] = EnvelopeOf(r2))
                  => i < j

\* C13 witness: another connection holds both messages of one handler.
C13_Witness ==
  \E k1, k2 \in DOMAIN persisted : \E v \in Handles :
    /\ k1 < k2
    /\ persisted[k1].by = persisted[k2].by
    /\ v # persisted[k1].by
    /\ \E r1 \in persisted[k1].rows : \E r2 \in persisted[k2].rows :
         \E i, j \in DOMAIN inbox[v] :
           inbox[v][i] = EnvelopeOf(r1) /\ inbox[v][j] = EnvelopeOf(r2)

\* C14: after guardar_mensaje_db has raised in a handler, nobody holds an
\* envelope of the message that was not stored, and the identity of the
\* handler is a key of active_connections exactly when its connection is
\* still open.
C14_StoreFailureKeepsRegistry ==
  \A w \in Handles :
    exc[w] = "OperationalError" =>
      /\ \A v \in Handles : \A k \in DOMAIN inbox[v] :
           ClientChat(inbox[v][k]) => inbox[v][k].id < next_id
      /\ Registered(w) <=> Open(w)

\* every envelope a client holds or a handler is sending
Envelopes ==
  UNION {{inbox[v][k] : k \in DOMAIN inbox[v]} : v \in Handles}
  \cup {sending[w].msg : w \in Handles}

\* C15: every CHAT envelope of a client message that a client holds or that
\* is being sent carries the id of an INSERT that was made before, and the
\* row of that INSERT has the sender, recipient, message and timestamp of the
\* envelope.
C15_PersistedBeforeDelivered ==
  \A m \in Envelopes :
    ClientChat(m) =>
      /\ m.id \in DOMAIN persisted
      /\ \E r \in persisted[m.id].rows : EnvelopeOf(r) = m

\* C15 witness: two handlers are dispatching their messages at the same time
\* and a client already holds the envelope of the later message.
C15_Witness ==
  \E u, w \in Handles : \E v \in Handles : \E k \in DOMAIN inbox[v] :
    /\ u # w
    /\ ClientChat(sending[u].msg)
    /\ ClientChat(sending[w].msg)
    /\ sending[u].msg.id < sending[w].msg.id
    /\ inbox[v][k] = sending[w].msg

\* the connections that hold envelope m
Holders(m) == {v \in Handles : Count(inbox[v], m) >= 1}

\* the connections active_connections maps the identities of set S to
ConnectionsOf(S) ==
  {Lookup(active_connections, i) : i \in S \cap Keys(active_connections)}

\* C16: when the dispatch of a message event has completed with every
\* connection open, the envelope is held by every registered connection if the
\* recipient is "Chat General" (whatever is_group says and whatever groups
\* exist); else, if is_group is true, by connections of members of the group
\* of that name only, the ones the member list named at dispatch, and by
\* nobody when there is no such group; else by the connections of the
\* recipient and of the sender and nobody else.
C16_SentinelThenGroupThenUser ==
  \A w \in Handles :
    LET f == fanned[w]
        ev == handled[w]
    IN (/\ ev \in RouteMessages
        /\ pc[w] = "receive"
        /\ ClientChat(f.msg)
        /\ f.msg.recipient = ev.recipient) =>
         IF ev.recipient = ChatGeneral
           THEN Holders(f.msg) = Values(active_connections)
         ELSE IF Get(ev, "is_group", FALSE)
           THEN /\ Holders(f.msg) = f.targets
                /\ ev.recipient \notin DOMAIN grupos => Holders(f.msg) = {}
                /\ ev.recipient \in DOMAIN grupos =>
                     Holders(f.msg) = ConnectionsOf(Range(grupos[ev.recipient].miembros))
                     \/ Holders(f.msg) = {}
         ELSE Holders(f.msg) = ConnectionsOf({ev.recipient, client_id[w]})

\* C16 witness: a message to "Chat General" with is_group true has reached
\* all three connections although a group named "Chat General" exists and
\* has a single member.
C16_Witness ==
  \E w \in Handles :
    /\ handled[w] = [recipient |-> ChatGeneral, message |-> "hi", is_group |-> TRUE]
    /\ pc[w] = "receive"
    /\ ChatGeneral \in DOMAIN grupos
    /\ Len(grupos[ChatGeneral].miembros) = 1
    /\ Holders(fanned[w].msg) = Handles
    /\ ClientChat(fanned[w].msg)

\* no identity is listed twice
NoDuplicates(list) == \A i, j \in DOMAIN list : list[i] = list[j] => i = j

\* C17: a step that changes table grupos is not an add_member request for
\* a missing group or by a non-member, nor a kick_member request for a
\* missing group or by anyone but the creator, nor a step of a websocket
\* handler; it changes the member list of an existing group only as an
\* add_member or a kick_member request does; and no member list ever lists
\* an identity twice.
C17_MembershipChangesOnlyByAuthorizedRequests ==
  [][/\ grupos' # grupos =>
          /\ \A n \in GroupNames : \A a, b \in Ids :
               /\ add_member(n, a, b) =>
                    (n \in DOMAIN grupos /\ a \in Range(grupos[n].miembros))
               /\ kick_member(n, a, b) =>
                    (n \in DOMAIN grupos /\ a = grupos[n].creador)
          /\ \A n \in DOMAIN grupos :
               /\ n \in DOMAIN grupos'
               /\ grupos'[n] # grupos[n] =>
                    \E a, b \in Ids : add_member(n, a, b) \/ kick_member(n, a, b)
          /\ ~ \E w \in Handles :
                 \/ DispatchSend(w)
                 \/ DisconnectSend(w)
                 \/ ReceiveDisconnect(w)
                 \/ \E ev \in GroupMessages \cup DeleteEvents : Receive(w, ev)
     /\ \A n \in DOMAIN grupos' : NoDuplicates(grupos'[n].miembros)
    ]_vars

\* C17 witness: a member has added a third identity to a group created with
\* two, while a handler has dispatched a message to the group.
C17_Witness ==
  \E n \in DOMAIN grupos : \E w \in Handles :
    /\ Len(grupos[n].miembros) = 3
    /\ NoDuplicates(grupos[n].miembros)
    /\ handled[w] \in GroupMessages
    /\ budget.group_ops = 0

\* C18: no connection holds two copies of the CHAT envelope of one message
\* event.
C18_AtMostOneCopyPerConnection ==
  \A v \in Handles : \A i, j \in DOMAIN inbox[v] :
    (ClientChat(inbox[v][i]) /\ inbox[v][i] = inbox[v][j]) => i = j

\* the online_users of the last STATUS envelope in inbox_v, as a set
\* (the empty set when there is none)
LastStatus(inbox_v) ==
  LET at == {k \in DOMAIN inbox_v : inbox_v[k].type = "STATUS"} IN
  IF at = {} THEN {}
  ELSE Range(inbox_v[CHOOSE k \in at : \A j \in at : j <= k].online_users)

\* C19: when no handler is inside connect, disconnect or a presence
\* broadcast, the last STATUS envelope of every registered connection that
\* is open lists exactly the keys of active_connections.
C19_PresenceConverges ==
  (\A w \in Handles : pc[w] \notin {"connect", "disconnect"}) =>
    \A v \in Handles :
      (Registered(v) /\ Open(v) /\ Running(v)) =>
        LastStatus(inbox[v]) = Keys(active_connections)

\* C20: the first envelope an accepted connection receives is a STATUS
\* envelope that lists its own identity (identities being pairwise
\* distinct).
C20_StatusComesFirst ==
  \A w \in Handles :
    (UniqueIds /\ inbox[w] # <<>>) =>
      /\ inbox[w][1].type = "STATUS"
      /\ client_id[w] \in Range(inbox[w][1].online_users)

====
